---- MODULE Spec2Model ----
(***************************************************************************)
(* Model of deploy/update-addresses.py: the command-line tool that merges  *)
(* contract name/address pairs into addresses/<chain_id>.json.             *)
(*                                                                         *)
(* Strings of the program (contract names, addresses) are sequences of     *)
(* code points, so that Python's string order (sort_keys) is computed and  *)
(* not assumed.  A file is a sequence of tokens, one token per piece that  *)
(* json.dump emits: the opening brace, one "key": "value" member, the      *)
(* closing brace, the trailing newline.  Each invocation of the tool is a  *)
(* process walking through the script's statements; the file system is the *)
(* only state shared by invocations.                                       *)
(***************************************************************************)
EXTENDS Integers, Sequences, FiniteSets, TLC

\* ---------------------------------------------------------------- bounds
\* Number of distinct contract names.
NumNames == 2
\* Largest len(sys.argv) an invocation is started with.
MaxArgs == 6
\* Largest len(sys.argv) of the invocations that race each other.
RaceMaxArgs == 4

\* ------------------------------------------------------------- the inputs
\* "B", "AB", "A", "BA", "AA" as code points; the first NumNames are used.
NameList == << <<66>>, <<65, 66>>, <<65>>, <<66, 65>>, <<65, 65>> >>
Names == {NameList[n] : n \in 1..NumNames}
\* "0x1" and "0x2": the script never looks inside an address.
Addrs == {<<48, 120, 49>>, <<48, 120, 50>>}
Prog == "deploy/update-addresses.py"
ChainIds == {"4"}
Procs == {1, 2}

\* Every sys.argv the tool is started with: the program name alone, or the
\* program name, a chain id and n further words, names and addresses in
\* turn, up to max elements in all.
ArgTail(n) ==
  {r \in [1..n -> Names \cup Addrs] :
     \A i \in 1..n : IF i % 2 = 1 THEN r[i] \in Names ELSE r[i] \in Addrs}
ArgvUpTo(max) ==
  {<<Prog>>} \cup
  {<<Prog, c>> \o r : c \in ChainIds,
                      r \in UNION {ArgTail(n) : n \in 0..(max - 2)}}
ArgvSet == ArgvUpTo(MaxArgs)
RaceArgvSet == ArgvUpTo(RaceMaxArgs)

\* len(sys.argv) and sys.argv[i] with Python's 0-based index.
num_args(a) == Len(a)
sys_argv(a, i) == a[i + 1]

\* ------------------------------------------------------- argument check
\* Mutant: the parity test is missing.
ArgsRejectedNoParity(a) == num_args(a) < 4
\* Mutant: the minimum is off by one pair.
ArgsRejectedMin2(a) == num_args(a) % 2 # 0 \/ num_args(a) < 2
\* Line 10: the condition under which the script raises.
ArgsRejected(a) == num_args(a) % 2 # 0 \/ num_args(a) < 4

\* Line 11: the text of the exception.
ArgsMessage ==
  "args must be chainid followed by pairs of contract name, contract address"

\* Line 13: file_path = 'addresses/' + chain_id + '.json'
FilePath(chain_id) == <<"addresses/", chain_id, ".json">>
Paths == {FilePath(c) : c \in ChainIds}

\* ------------------------------------------------------ strings and dicts
\* Python's str order: code point by code point, a proper prefix first.
LexLess(a, b) ==
  \E i \in 1..(Len(a) + 1) :
    /\ \A j \in 1..(i - 1) : j <= Len(b) /\ a[j] = b[j]
    /\ \/ i = Len(a) + 1 /\ Len(b) >= i
       \/ i <= Len(a) /\ i <= Len(b) /\ a[i] < b[i]

\* A dict is the sequence of its items <<key, value>> in insertion order,
\* keys unique.
DictKeys(d) == {d[i][1] : i \in DOMAIN d}
DictGet(d, k) == d[CHOOSE i \in DOMAIN d : d[i][1] = k][2]

\* Mutant: an existing key keeps its first value.
DictSetFirstWins(d, k, v) ==
  IF k \in DictKeys(d) THEN d ELSE Append(d, <<k, v>>)
\* d[k] = v: an existing key keeps its place and takes the new value, a new
\* key goes last.
DictSet(d, k, v) ==
  IF k \in DictKeys(d)
  THEN [i \in DOMAIN d |-> IF d[i][1] = k THEN <<k, v>> ELSE d[i]]
  ELSE Append(d, <<k, v>>)

\* Lines 19-20: for i in range(2, num_args, 2): d[argv[i]] = argv[i+1].
\* ok is FALSE when argv[i+1] is out of range (IndexError).
RECURSIVE MergeFrom(_, _, _)
MergeFrom(d, a, i) ==
  IF i >= num_args(a) THEN [ok |-> TRUE, dict |-> d]
  ELSE IF i + 1 >= num_args(a) THEN [ok |-> FALSE, dict |-> d]
  ELSE MergeFrom(DictSet(d, sys_argv(a, i), sys_argv(a, i + 1)), a, i + 2)
MergeArgs(d, a) == MergeFrom(d, a, 2)

\* ------------------------------------------------------------------ JSON
LB == <<"{", <<>>, <<>>>>
RB == <<"}", <<>>, <<>>>>
NL == <<"nl", <<>>, <<>>>>
NUL == <<"nul", <<>>, <<>>>>
KV(k, v) == <<"kv", k, v>>
\* A member as str(dict) would print it: single quotes, not JSON.
ReprKV(k, v) == <<"repr", k, v>>

RemoveAt(s, m) == [i \in 1..(Len(s) - 1) |-> IF i < m THEN s[i] ELSE s[i + 1]]

\* sort_keys=True: the items in ascending key order.
RECURSIVE SortItems(_)
SortItems(d) ==
  IF d = <<>> THEN <<>>
  ELSE LET m == CHOOSE i \in DOMAIN d :
                  \A j \in DOMAIN d : j = i \/ LexLess(d[i][1], d[j][1])
       IN  <<d[m]>> \o SortItems(RemoveAt(d, m))

\* Mutant: sort_keys is missing, the items go out in insertion order.
json_dump_unsorted(d) ==
  <<LB>> \o [i \in DOMAIN d |-> KV(d[i][1], d[i][2])] \o <<RB>>
\* Mutant: the dict is written with str() instead of json.dump.
json_dump_repr(d) ==
  <<LB>> \o [i \in DOMAIN SortItems(d) |->
               ReprKV(SortItems(d)[i][1], SortItems(d)[i][2])] \o <<RB>>
\* Mutant: the last member is lost.
json_dump_drop_last(d) ==
  <<LB>> \o [i \in 1..(Len(d) - 1) |->
               KV(SortItems(d)[i][1], SortItems(d)[i][2])] \o <<RB>>
\* Line 22: json.dump(addrs_dict, write_file, indent=2, sort_keys=True).
json_dump(d) ==
  <<LB>> \o [i \in DOMAIN SortItems(d) |->
               KV(SortItems(d)[i][1], SortItems(d)[i][2])] \o <<RB>>

\* The text is one JSON object, with nothing but whitespace after it.
ValidJson(data) ==
  /\ Len(data) >= 2
  /\ data[1] = LB
  /\ \E j \in 2..Len(data) :
       /\ data[j] = RB
       /\ \A i \in 2..(j - 1) : data[i][1] = "kv"
       /\ \A i \in (j + 1)..Len(data) : data[i] = NL

RECURSIVE ParseMembers(_, _, _)
ParseMembers(data, i, d) ==
  IF i > Len(data) \/ data[i][1] # "kv" THEN d
  ELSE ParseMembers(data, i + 1, DictSet(d, data[i][2], data[i][3]))

\* Mutant: a file that does not parse is taken as an empty map.
json_load_lenient(data) ==
  IF ValidJson(data) THEN [ok |-> TRUE, dict |-> ParseMembers(data, 2, <<>>)]
  ELSE [ok |-> TRUE, dict |-> <<>>]
\* Line 18: json.load(f); ok is FALSE when it raises JSONDecodeError.  A
\* repeated key keeps its first place and its last value.
json_load(data) ==
  IF ValidJson(data) THEN [ok |-> TRUE, dict |-> ParseMembers(data, 2, <<>>)]
  ELSE [ok |-> FALSE, dict |-> <<>>]

\* ------------------------------------------------------------ file system
NoFile == [exists |-> FALSE, data |-> <<>>]
File(data) == [exists |-> TRUE, data |-> data]

\* Mutant: the file is opened without truncation (mode "r+").
OpenKeep(f) == File(f.data)
\* Line 21: open(file_path, "w") creates the file or truncates it.
OpenTruncate(f) == File(<<>>)

\* write(2) of chunk at offset off: bytes before off are kept (a hole reads
\* as NUL), bytes under the chunk are replaced, bytes after it are kept.
WriteAt(data, off, chunk) ==
  [i \in 1..(IF Len(data) > off + Len(chunk) THEN Len(data) ELSE off + Len(chunk)) |->
     IF i <= off THEN (IF i <= Len(data) THEN data[i] ELSE NUL)
     ELSE IF i <= off + Len(chunk) THEN chunk[i - off]
     ELSE data[i]]

Take(s, k) == SubSeq(s, 1, k)
Drop(s, k) == SubSeq(s, k + 1, Len(s))

\* The map a file holds, as a function from key to value.
AsMap(d) == [k \in DictKeys(d) |-> DictGet(d, k)]

\* The members of a text are in strictly ascending key order.
KeysAscending(data) ==
  \A i, j \in DOMAIN data :
    (i < j /\ data[i][1] = "kv" /\ data[j][1] = "kv") => LexLess(data[i][2], data[j][2])

\* The files an earlier run of the tool can have left: an object with
\* ascending keys, the closing brace and a newline.
InitFiles ==
  {NoFile} \cup
  {File(<<LB>> \o m \o <<RB, NL>>) :
     m \in {x \in UNION {[1..n -> {KV(k, v) : k \in Names, v \in Addrs}] :
                           n \in 0..NumNames} : KeysAscending(x)}}

\* ------------------------------------------------------------------ state
VARIABLES
  fs,           \* file system: path -> [exists, data]
  dir_exists,   \* whether the addresses/ directory exists
  pc,           \* per invocation: the statement it is at
  argv,         \* per invocation: sys.argv
  file_exists,  \* per invocation: the script's file_exists
  addrs_dict,   \* per invocation: the script's addrs_dict
  buf,          \* per invocation: write_file's unflushed text
  off,          \* per invocation: write_file's offset in the file
  err,          \* per invocation: the exception that ended it, "" if none
  prior,        \* history: the file system when the invocation started
  rerun,        \* history: the invocation repeats the previous one's argv
  first_out,    \* history: the file system when the repeated run started
  interrupted,  \* history: some invocation was killed inside its with block
  last_open,    \* history: path -> the invocation that opened it last, 0 if none
  last_close,   \* history: path -> the invocation that closed it last, 0 if none
  exclusive     \* history: no other invocation had the path open during p's write

vars == <<fs, dir_exists, pc, argv, file_exists, addrs_dict, buf, off, err,
          prior, rerun, first_out, interrupted, last_open, last_close, exclusive>>
hist == <<prior, rerun, first_out, interrupted, last_open, last_close, exclusive>>

\* Line 12-13: chain_id = sys.argv[1] and the path made from it.
chain_id(p) == sys_argv(argv[p], 1)
file_path(p) == FilePath(chain_id(p))

Writing(p) == pc[p] \in {"dump", "close"}

Init ==
  /\ dir_exists \in BOOLEAN
  /\ fs \in [Paths -> InitFiles]
  /\ dir_exists = FALSE => \A f \in Paths : fs[f] = NoFile
  /\ pc = [p \in Procs |-> "idle"]
  /\ argv = [p \in Procs |-> <<Prog>>]
  /\ file_exists = [p \in Procs |-> FALSE]
  /\ addrs_dict = [p \in Procs |-> <<>>]
  /\ buf = [p \in Procs |-> <<>>]
  /\ off = [p \in Procs |-> 0]
  /\ err = [p \in Procs |-> ""]
  /\ prior = [p \in Procs |-> fs]
  /\ rerun = [p \in Procs |-> FALSE]
  /\ first_out = [p \in Procs |-> fs]
  /\ interrupted = FALSE
  /\ last_open = [f \in Paths |-> 0]
  /\ last_close = [f \in Paths |-> 0]
  /\ exclusive = [p \in Procs |-> FALSE]

\* The process starts with argument list a.
Begin(p, a) ==
  /\ argv' = [argv EXCEPT ![p] = a]
  /\ pc' = [pc EXCEPT ![p] = "check"]
  /\ file_exists' = [file_exists EXCEPT ![p] = FALSE]
  /\ addrs_dict' = [addrs_dict EXCEPT ![p] = <<>>]
  /\ buf' = [buf EXCEPT ![p] = <<>>]
  /\ off' = [off EXCEPT ![p] = 0]
  /\ err' = [err EXCEPT ![p] = ""]
  /\ prior' = [prior EXCEPT ![p] = fs]
  /\ exclusive' = [exclusive EXCEPT ![p] = FALSE]
  /\ UNCHANGED <<fs, dir_exists, interrupted, last_open, last_close>>

\* The user runs the tool (line 8).
Start(p) ==
  /\ pc[p] = "idle"
  /\ \E a \in ArgvSet : Begin(p, a)
  /\ rerun' = [rerun EXCEPT ![p] = FALSE]
  /\ first_out' = [first_out EXCEPT ![p] = fs]

\* The process is gone: nothing of it is left but the files.
Exit(p) ==
  /\ pc[p] \in {"done", "failed"}
  /\ pc' = [pc EXCEPT ![p] = "idle"]
  /\ argv' = [argv EXCEPT ![p] = <<Prog>>]
  /\ file_exists' = [file_exists EXCEPT ![p] = FALSE]
  /\ addrs_dict' = [addrs_dict EXCEPT ![p] = <<>>]
  /\ buf' = [buf EXCEPT ![p] = <<>>]
  /\ off' = [off EXCEPT ![p] = 0]
  /\ err' = [err EXCEPT ![p] = ""]
  /\ prior' = [prior EXCEPT ![p] = fs]
  /\ first_out' = [first_out EXCEPT ![p] = fs]
  /\ rerun' = [rerun EXCEPT ![p] = FALSE]
  /\ exclusive' = [exclusive EXCEPT ![p] = FALSE]
  /\ UNCHANGED <<fs, dir_exists, interrupted, last_open, last_close>>

\* A user runs the tool once, while another user may be running it too.
Launch(p) ==
  /\ pc[p] = "idle"
  /\ \E a \in RaceArgvSet : Begin(p, a)
  /\ UNCHANGED <<rerun, first_out>>

\* The user runs the tool again with the arguments of the run that just ended.
Rerun(p) ==
  /\ pc[p] \in {"done", "failed"}
  /\ err[p] # "killed"
  /\ Begin(p, argv[p])
  /\ rerun' = [rerun EXCEPT ![p] = TRUE]
  /\ first_out' = [first_out EXCEPT ![p] = fs]

Fail(p, e) ==
  /\ pc' = [pc EXCEPT ![p] = "failed"]
  /\ err' = [err EXCEPT ![p] = e]

\* Lines 9-11: the argument count check.
Check(p) ==
  /\ pc[p] = "check"
  /\ IF ArgsRejected(argv[p])
     THEN Fail(p, ArgsMessage)
     ELSE pc' = [pc EXCEPT ![p] = "exists"] /\ UNCHANGED err
  /\ UNCHANGED <<fs, dir_exists, argv, file_exists, addrs_dict, buf, off, hist>>

\* Lines 12-16: file_exists = exists(file_path), addrs_dict = {}.
Exists(p) ==
  /\ pc[p] = "exists"
  /\ file_exists' = [file_exists EXCEPT ![p] = fs[file_path(p)].exists]
  /\ addrs_dict' = [addrs_dict EXCEPT ![p] = <<>>]
  /\ pc' = [pc EXCEPT ![p] = IF fs[file_path(p)].exists THEN "load" ELSE "merge"]
  /\ UNCHANGED <<fs, dir_exists, argv, buf, off, err, hist>>

\* Lines 17-18: read the file and parse it.
Load(p) ==
  /\ pc[p] = "load"
  /\ LET r == json_load(fs[file_path(p)].data)
     IN  IF r.ok
         THEN /\ addrs_dict' = [addrs_dict EXCEPT ![p] = r.dict]
              /\ pc' = [pc EXCEPT ![p] = "merge"]
              /\ UNCHANGED err
         ELSE /\ Fail(p, "JSONDecodeError")
              /\ UNCHANGED addrs_dict
  /\ UNCHANGED <<fs, dir_exists, argv, file_exists, buf, off, hist>>

\* Lines 19-20: the merge loop.
Merge(p) ==
  /\ pc[p] = "merge"
  /\ LET r == MergeArgs(addrs_dict[p], argv[p])
     IN  /\ addrs_dict' = [addrs_dict EXCEPT ![p] = r.dict]
         /\ IF r.ok
            THEN pc' = [pc EXCEPT ![p] = "open"] /\ UNCHANGED err
            ELSE Fail(p, "IndexError")
  /\ UNCHANGED <<fs, dir_exists, argv, file_exists, buf, off, hist>>

\* Line 21: open(file_path, "w").
Open(p) ==
  /\ pc[p] = "open"
  /\ IF dir_exists
     THEN /\ fs' = [fs EXCEPT ![file_path(p)] = OpenTruncate(@)]
          /\ pc' = [pc EXCEPT ![p] = "dump"]
          /\ off' = [off EXCEPT ![p] = 0]
          /\ buf' = [buf EXCEPT ![p] = <<>>]
          /\ last_open' = [last_open EXCEPT ![file_path(p)] = p]
          /\ exclusive' =
               [q \in Procs |->
                  IF q = p
                  THEN \A o \in Procs \ {p} :
                         ~(Writing(o) /\ file_path(o) = file_path(p))
                  ELSE IF Writing(q) /\ file_path(q) = file_path(p)
                       THEN FALSE ELSE exclusive[q]]
          /\ UNCHANGED err
     ELSE /\ Fail(p, "FileNotFoundError")
          /\ UNCHANGED <<fs, off, buf, last_open, exclusive>>
  /\ UNCHANGED <<dir_exists, argv, file_exists, addrs_dict,
                 prior, rerun, first_out, interrupted, last_close>>

\* Lines 22-23: json.dump(...) and write("\n") into write_file's buffer.
Write(p) ==
  /\ pc[p] = "dump"
  /\ buf' = [buf EXCEPT ![p] = @ \o json_dump(addrs_dict[p]) \o <<NL>>]
  /\ pc' = [pc EXCEPT ![p] = "close"]
  /\ UNCHANGED <<fs, dir_exists, argv, file_exists, addrs_dict, off, err, hist>>

\* write_file's buffer overflows while lines 22-23 run: the first k tokens
\* of the buffer go to the file at the file object's offset.
Flush(p) ==
  /\ pc[p] = "close"
  /\ buf[p] # <<>>
  /\ \E k \in 1..Len(buf[p]) :
       /\ fs' = [fs EXCEPT ![file_path(p)] =
                   File(WriteAt(@.data, off[p], Take(buf[p], k)))]
       /\ off' = [off EXCEPT ![p] = @ + k]
       /\ buf' = [buf EXCEPT ![p] = Drop(@, k)]
  /\ UNCHANGED <<dir_exists, pc, argv, file_exists, addrs_dict, err, hist>>

\* The end of the with block: the rest of the buffer is written, the file
\* is closed.
Close(p) ==
  /\ pc[p] = "close"
  /\ fs' = [fs EXCEPT ![file_path(p)] = File(WriteAt(@.data, off[p], buf[p]))]
  /\ off' = [off EXCEPT ![p] = @ + Len(buf[p])]
  /\ buf' = [buf EXCEPT ![p] = <<>>]
  /\ pc' = [pc EXCEPT ![p] = "done"]
  /\ last_close' = [last_close EXCEPT ![file_path(p)] = p]
  /\ UNCHANGED <<dir_exists, argv, file_exists, addrs_dict, err,
                 prior, rerun, first_out, interrupted, last_open, exclusive>>

\* The process dies inside the with block (kill, power loss): what is in
\* the buffer is lost, what reached the file stays.
Kill(p) ==
  /\ Writing(p)
  /\ buf' = [buf EXCEPT ![p] = <<>>]
  /\ Fail(p, "killed")
  /\ interrupted' = TRUE
  /\ UNCHANGED <<fs, dir_exists, argv, file_exists, addrs_dict, off,
                 prior, rerun, first_out, last_open, last_close, exclusive>>

\* One user, one invocation at a time, any number of them.
NextSeq ==
  \/ Start(1) \/ Rerun(1) \/ Exit(1) \/ Check(1) \/ Exists(1) \/ Load(1) \/ Merge(1)
  \/ Open(1) \/ Write(1) \/ Flush(1) \/ Close(1) \/ Kill(1)
SpecSeq == Init /\ [][NextSeq]_vars

\* Two users, one invocation each, no coordination between them.
Next ==
  \E p \in Procs :
    \/ Launch(p) \/ Check(p) \/ Exists(p) \/ Load(p) \/ Merge(p)
    \/ Open(p) \/ Write(p) \/ Flush(p) \/ Close(p) \/ Kill(p)
Spec == Init /\ [][Next]_vars

\* ================================================================ claims
\* What the claims say about an argument list, in the claims' own terms.
TrailingArgs(a) == num_args(a) - 2
\* Chain id followed by one or more complete name/address pairs.
ClaimValid(a) == TrailingArgs(a) >= 2 /\ TrailingArgs(a) % 2 = 0
\* The 0-based positions of the names in a valid argument list.
PairIdx(a) == {i \in 2..(num_args(a) - 2) : i % 2 = 0}
ArgNames(a) == {sys_argv(a, i) : i \in PairIdx(a)}
LastIdx(a, k) ==
  CHOOSE i \in PairIdx(a) :
    sys_argv(a, i) = k /\ \A j \in PairIdx(a) : sys_argv(a, j) = k => j <= i
LastAddr(a, k) == sys_argv(a, LastIdx(a, k) + 1)
HasDuplicate(a) ==
  \E i, j \in PairIdx(a) : i < j /\ sys_argv(a, i) = sys_argv(a, j)

Started(p) == pc[p] # "idle"
Ended(p) == pc[p] \in {"done", "failed"}
PriorFile(p) == prior[p][file_path(p)]
PriorOk(p) == ~PriorFile(p).exists \/ ValidJson(PriorFile(p).data)
\* The map M the file held when the invocation started, empty if absent.
PriorMap(p) ==
  IF PriorFile(p).exists THEN AsMap(json_load(PriorFile(p).data).dict)
  ELSE AsMap(<<>>)
\* The map the file holds now.
FileMap(f) == AsMap(json_load(fs[f].data).dict)
\* M updated with the pairs, the last pair that names a key giving its value.
MergedMap(p) ==
  [k \in DOMAIN PriorMap(p) \cup ArgNames(argv[p]) |->
     IF k \in ArgNames(argv[p]) THEN LastAddr(argv[p], k) ELSE PriorMap(p)[k]]
\* The text a completed run leaves: the merged dict dumped, and a newline.
FullText(p) ==
  json_dump(MergeArgs(IF PriorFile(p).exists THEN json_load(PriorFile(p).data).dict
                      ELSE <<>>, argv[p]).dict) \o <<NL>>
IsPrefix(s, t) == Len(s) <= Len(t) /\ s = Take(t, Len(s))
Invalid(f) == fs[f].exists /\ ~ValidJson(fs[f].data)

\* C1 as stated: every run with valid arguments and a prior file that is
\* absent or a JSON object succeeds and leaves a map with M'[name] = address
\* for EVERY supplied pair, the other keys of M kept, no key added or
\* removed, keys ascending.
C1_AsStated ==
  \A p \in {1} :
    (Ended(p) /\ err[p] # "killed" /\ ClaimValid(argv[p]) /\ PriorOk(p)) =>
      /\ pc[p] = "done"
      /\ fs[file_path(p)].exists /\ ValidJson(fs[file_path(p)].data)
      /\ \A i \in PairIdx(argv[p]) :
           /\ sys_argv(argv[p], i) \in DOMAIN FileMap(file_path(p))
           /\ FileMap(file_path(p))[sys_argv(argv[p], i)] = sys_argv(argv[p], i + 1)
      /\ \A k \in DOMAIN PriorMap(p) \ ArgNames(argv[p]) :
           k \in DOMAIN FileMap(file_path(p)) /\ FileMap(file_path(p))[k] = PriorMap(p)[k]
      /\ DOMAIN FileMap(file_path(p)) = DOMAIN PriorMap(p) \cup ArgNames(argv[p])
      /\ KeysAscending(fs[file_path(p)].data)

\* C1 (amended): when the addresses/ directory exists, a run with valid
\* arguments and a prior file that is absent or a JSON object succeeds and
\* leaves exactly the map M' with M'[name] = the address of the LAST pair
\* naming name and M'[k] = M[k] for the keys no pair names, written with
\* ascending keys, the closing brace and one newline.
C1_MergedMapWritten ==
  \A p \in {1} :
    (Ended(p) /\ err[p] # "killed" /\ ClaimValid(argv[p]) /\ PriorOk(p) /\ dir_exists) =>
      /\ pc[p] = "done"
      /\ fs[file_path(p)].exists /\ ValidJson(fs[file_path(p)].data)
      /\ FileMap(file_path(p)) = MergedMap(p)
      /\ Len(fs[file_path(p)].data) = Cardinality(DOMAIN MergedMap(p)) + 3
      /\ KeysAscending(fs[file_path(p)].data)
      /\ fs[file_path(p)].data[Len(fs[file_path(p)].data)] = NL
C1_Witness ==
  /\ pc[1] = "done" /\ num_args(argv[1]) = 6
  /\ LexLess(sys_argv(argv[1], 4), sys_argv(argv[1], 2))
  /\ PriorFile(1).exists /\ PriorFile(1) # fs[file_path(1)]

\* C2: an invocation whose arguments after the chain id are odd in number or
\* hold less than one pair fails with the argument error before any file is
\* read or written: the file system is as it was when the run started.
C2_InvalidArgsTouchNothing ==
  \A p \in {1} :
    (Started(p) /\ ~ClaimValid(argv[p])) =>
      /\ pc[p] \in {"check", "failed"}
      /\ pc[p] = "failed" => err[p] = ArgsMessage
      /\ fs = prior[p]
C2_Witness ==
  /\ pc[1] = "failed" /\ err[1] = ArgsMessage /\ num_args(argv[1]) = 5
  /\ fs[file_path(1)].exists

\* C3 as stated: the check accepts exactly when the number of arguments
\* without the program name is EVEN and at least 3.
Accepted(p) == ~(pc[p] = "failed" /\ err[p] = ArgsMessage)
C3_AsStated ==
  \A p \in {1} :
    pc[p] \notin {"idle", "check"} =>
      (Accepted(p) <=>
         ((num_args(argv[p]) - 1) % 2 = 0 /\ num_args(argv[p]) - 1 >= 3))
\* C3 (amended): the check accepts exactly when the number of arguments
\* without the program name is ODD and at least 3 (a chain id and one or
\* more pairs); every other count fails with the message of line 11.
C3_AcceptsOddAtLeast3 ==
  \A p \in {1} :
    pc[p] \notin {"idle", "check"} =>
      (Accepted(p) <=>
         ((num_args(argv[p]) - 1) % 2 = 1 /\ num_args(argv[p]) - 1 >= 3))
C3_Witness ==
  pc[1] = "exists" /\ num_args(argv[1]) - 1 = 3

\* C4: running the tool a second time with the same arguments leaves the
\* file system as the first run left it.
C4_Idempotent ==
  \A p \in {1} :
    (rerun[p] /\ Ended(p) /\ err[p] # "killed" /\ ClaimValid(argv[p])) =>
      fs = first_out[p]
C4_Witness ==
  /\ rerun[1] /\ pc[1] = "done"
  /\ Len(fs[file_path(1)].data) = 5

\* C5: when a name appears in more than one pair of an invocation, the
\* address written for it is that of the last pair naming it, and the
\* repetition causes no error.
C5_LastPairWins ==
  \A p \in {1} :
    (Ended(p) /\ HasDuplicate(argv[p]) /\ ClaimValid(argv[p])) =>
      /\ pc[p] = "failed" =>
           \/ err[p] = "killed"
           \/ err[p] = "FileNotFoundError" /\ ~dir_exists
           \/ err[p] = "JSONDecodeError" /\ ~PriorOk(p)
      /\ pc[p] = "done" =>
           \A k \in ArgNames(argv[p]) :
             /\ k \in DOMAIN FileMap(file_path(p))
             /\ FileMap(file_path(p))[k] = LastAddr(argv[p], k)
C5_Witness ==
  /\ pc[1] = "done" /\ num_args(argv[1]) = 6
  /\ sys_argv(argv[1], 2) = sys_argv(argv[1], 4)
  /\ sys_argv(argv[1], 3) # sys_argv(argv[1], 5)

\* C6: as long as no invocation was interrupted inside its write, between
\* invocations every file that exists is one JSON object whose members map
\* a string to a string.
C6_FileStaysValid ==
  (~interrupted /\ pc[1] \in {"idle", "done", "failed"}) =>
    \A f \in Paths :
      fs[f].exists =>
        /\ ValidJson(fs[f].data)
        /\ \A i \in DOMAIN fs[f].data :
             fs[f].data[i][1] = "kv" =>
               fs[f].data[i][2] \in Names /\ fs[f].data[i][3] \in Addrs
C6_Witness ==
  /\ ~interrupted /\ pc[1] = "done" /\ ~rerun[1]
  /\ ~PriorFile(1).exists /\ Len(fs[file_path(1)].data) = 4

\* C7: with valid arguments and an existing file that is not valid JSON the
\* run fails at the load (JSONDecodeError) and never reaches the open; and a
\* run that failed otherwise than by being killed inside its write left the
\* file system as it found it.
C7_MalformedLeavesFile ==
  \A p \in {1} :
    /\ (Started(p) /\ ClaimValid(argv[p]) /\ ~PriorOk(p)) =>
         /\ pc[p] \in {"check", "exists", "load", "failed"}
         /\ pc[p] = "failed" => err[p] = "JSONDecodeError"
         /\ fs = prior[p]
    /\ (pc[p] = "failed" /\ err[p] # "killed") => fs = prior[p]
C7_Witness ==
  /\ pc[1] = "failed" /\ err[1] = "JSONDecodeError"
  /\ fs[file_path(1)].data # <<>> /\ fs = prior[1]

\* C9: before the open the file system is as the run found it; after the
\* close the file holds the whole merged text; a run that ended otherwise
\* left the file as it was, or whole, or - only when killed inside its write
\* - a proper prefix of the merged text.
C9_NoPartialSuccess ==
  \A p \in {1} :
    /\ pc[p] \in {"check", "exists", "load", "merge", "open"} => fs = prior[p]
    /\ pc[p] = "done" => fs[file_path(p)] = File(FullText(p))
    /\ (pc[p] = "failed" /\ fs # prior[p] /\ fs[file_path(p)].data # FullText(p)) =>
         /\ err[p] = "killed"
         /\ fs[file_path(p)].exists
         /\ IsPrefix(fs[file_path(p)].data, FullText(p))
C9_Witness ==
  /\ pc[1] = "failed" /\ err[1] = "killed"
  /\ PriorFile(1).exists /\ ValidJson(PriorFile(1).data)
  /\ Len(fs[file_path(1)].data) = 2
  /\ FullText(1) # fs[file_path(1)].data

\* ------------------------------------------------- racing invocations
BothDone == pc[1] = "done" /\ pc[2] = "done" /\ file_path(1) = file_path(2)
\* The text invocation p wrote: its snapshot updated with its pairs.
Written(p) == json_dump(addrs_dict[p]) \o <<NL>>

\* C8 as stated: in every interleaving in which both invocations complete,
\* the file is the text written by the one whose write finished last.
C8_AsStated ==
  BothDone => fs[file_path(1)] = File(Written(last_close[file_path(1)]))

\* C8 (amended): when both invocations complete and neither had the file
\* open while the other was between its open and its close, the file is the
\* text written by the one that closed last: the snapshot it loaded updated
\* with its own pairs.  (When the write steps overlap the file can be a
\* mixture of the two texts.)
C8_LastWriterWins ==
  (BothDone /\ exclusive[1] /\ exclusive[2]) =>
    fs[file_path(1)] = File(Written(last_close[file_path(1)]))
\* The lost update: both completed, one after the other, and a name the
\* first one supplied is not in the file.
C8_Witness ==
  /\ BothDone /\ exclusive[1] /\ exclusive[2]
  /\ last_close[file_path(1)] = 2
  /\ \E k \in ArgNames(argv[1]) : k \notin DOMAIN FileMap(file_path(1))

\* An invocation is past its load with the file as its target: it holds a
\* snapshot it will write, or has the file open.
Pending(p, f) ==
  pc[p] \in {"merge", "open", "dump", "close"} /\ file_path(p) = f
Quiet(f) == \A p \in Procs : ~Pending(p, f)
\* Some invocation has failed at its load of f.
LoadFailed(f) ==
  \E q \in Procs :
    pc[q] = "failed" /\ err[q] = "JSONDecodeError" /\ file_path(q) = f

\* C10 as stated, in the case it names (an invocation read the file while
\* it was not valid JSON and failed): from then on the file stays invalid.
C10_AsStated ==
  [][\A f \in Paths : (Invalid(f) /\ LoadFailed(f)) => Invalid(f)']_vars

\* C10 (amended): once the file exists, is not valid JSON and no invocation
\* is past its load on it (none holds a snapshot to write or has the file
\* open), no step of any invocation changes the file, and every invocation
\* that runs later ends at or before its load: the file stays invalid.
C10_NeverRepaired ==
  [][\A f \in Paths :
       (Invalid(f) /\ Quiet(f)) => (fs'[f] = fs[f] /\ Invalid(f)' /\ Quiet(f)')]_vars
\* An invocation started on the broken file and failed at its load.
C10_Witness ==
  \E f \in Paths :
    /\ Invalid(f) /\ Quiet(f)
    /\ \E q \in Procs :
         /\ pc[q] = "failed" /\ err[q] = "JSONDecodeError" /\ file_path(q) = f
         /\ prior[q][f] = fs[f]

====
